---- MODULE Spec2Model ----
(***************************************************************************)
(* InspectionHub: the incremental harvest of src/src/api_scraper.py        *)
(* (ApiScraper._discover_paths, _get_recent_inspections_for_path, run)     *)
(* against the MySQL schema of src/src/database_setup.py.                  *)
(*                                                                         *)
(* Text is modelled as a sequence of chunks (TLA+ strings); the chunks     *)
(* " ", "T", "/", "," are the characters the code's strip/split/join act   *)
(* on, every other chunk is a run of characters holding none of them.      *)
(* A JSON value is a record [t, s, n, l]: its type tag, its text (str),    *)
(* its number (int) and its elements (list of str).                        *)
(***************************************************************************)
EXTENDS Integers, Sequences, FiniteSets, TLC

VARIABLES
    upstream,     \* the provider's data: path -> [dflt, food], the answer to each query
    db,           \* committed store: [restaurants, inspections]
    tx,           \* the open connection's view of the store (uncommitted writes included)
    conn,         \* "closed" | "open": the connection of the `with` block
    pc,           \* position of run()
    response,     \* the HTTP exchange just made (directory page or API answer)
    paths,        \* paths_to_scrape
    idx,          \* position of `for path in paths_to_scrape`
    api_results,  \* api_results of the current iteration
    ridx,         \* position of `for record in api_results`
    cur,          \* locals of the current record (name, address, category, ...)
    all_new,      \* all_newly_added_inspections
    exc,          \* the exception that left run(), "none" otherwise
    requests,     \* this run: path -> the POSTs sent, each with its programName and its answer
    commits,      \* this run: path -> number of conn.commit() calls
    delays,       \* this run: number of time.sleep() calls
    base,         \* this run: number of inspections rows committed when it started
    repeat,       \* this run repeats the last one: that one returned, this one found its sources
    session,      \* number of open curl sessions (the `with` block of line 111)
    opened,       \* this run: the sessions and the connections its source iterations opened
    runs,         \* two runs at work on one source at the same time (empty otherwise)
    events,       \* this run: the inspections row each entry of all_new stands for
    reported      \* every run so far: event key -> times a returned list held it

vars == <<upstream, db, tx, conn, pc, response, paths, idx, api_results,
          ridx, cur, all_new, exc, requests, commits, delays, base, repeat,
          session, opened, runs, events, reported>>

(* ------------------------------ bounds -------------------------------- *)
MaxBatch == 2     \* records in one API answer
MaxLinks == 2     \* anchors on the directory page

(* ------------------------------ text ---------------------------------- *)
RECURSIVE LStrip(_, _)
LStrip(s, c) ==
    IF s # <<>> /\ Head(s) = c THEN LStrip(Tail(s), c) ELSE s

RECURSIVE RStrip(_, _)
RStrip(s, c) ==
    IF s # <<>> /\ s[Len(s)] = c THEN RStrip(SubSeq(s, 1, Len(s) - 1), c) ELSE s

\* str.strip() / str.strip('/')
Strip(s, c) == RStrip(LStrip(s, c), c)

\* str.split('T')[0]
RECURSIVE SplitFirst(_, _)
SplitFirst(s, c) ==
    IF s = <<>> \/ Head(s) = c THEN <<>> ELSE <<Head(s)>> \o SplitFirst(Tail(s), c)

\* ', '.join(list)
RECURSIVE Join(_)
Join(l) ==
    IF l = <<>> THEN <<>>
    ELSE IF Len(l) = 1 THEN l[1]
    ELSE l[1] \o <<",", " ">> \o Join(Tail(l))

\* 'test' in path
Contains(s, c) == \E i \in 1..Len(s) : s[i] = c

RECURSIVE SeqsUpTo(_, _)
SeqsUpTo(S, n) ==
    IF n = 0 THEN {<<>>}
    ELSE LET shorter == SeqsUpTo(S, n - 1)
         IN  shorter \cup {Append(q, x) : q \in {r \in shorter : Len(r) = n - 1}, x \in S}

Range(s) == {s[i] : i \in 1..Len(s)}

(* ---------------------------- JSON values ----------------------------- *)
VStr(s) == [t |-> "str", s |-> s, n |-> 0, l |-> <<>>]
VInt(n) == [t |-> "int", s |-> <<>>, n |-> n, l |-> <<>>]
VList(l) == [t |-> "list", s |-> <<>>, n |-> 0, l |-> l]
VNull == [t |-> "null", s |-> <<>>, n |-> 0, l |-> <<>>]
VMissing == [t |-> "missing", s |-> <<>>, n |-> 0, l |-> <<>>]

\* Python truthiness of record.get(key)
Truthy(v) ==
    CASE v.t = "str" -> v.s # <<>>
      [] v.t = "int" -> v.n # 0
      [] v.t = "list" -> v.l # <<>>
      [] OTHER -> FALSE

\* str(value)
PyStr(v) ==
    CASE v.t = "str" -> v.s
      [] v.t = "int" -> <<ToString(v.n)>>
      [] v.t = "null" -> <<"None">>
      [] OTHER -> <<>>

\* record.get(key, default).strip(): AttributeError unless the value is a str
HasStrip(v) == v.t \in {"str", "missing"}
GetStripped(v, default) == Strip(IF v.t = "missing" THEN default ELSE v.s, " ")

(* ------------------------- record normalisation ----------------------- *)
\* both strip() calls left out
CategoryUntrimmed(v) ==
    IF v.t = "list" THEN Join(v.l) ELSE PyStr(v)

\* permitType: ', '.join(list).strip() for a list, str(value).strip() otherwise
Category(v) ==
    IF v.t = "list" THEN Strip(Join(v.l), " ") ELSE Strip(PyStr(v), " ")

\* `score is None or score == 0`
ScoreRejected(v) == v.t \in {"null", "missing"} \/ (v.t = "int" /\ v.n = 0)

Fields(id, name, address, category, date, score, purpose) ==
    [establishment_id |-> id, name |-> name, address |-> address,
     category |-> category, date |-> date, score |-> score, purpose |-> purpose]

NoFields == Fields(<<>>, <<>>, <<>>, <<>>, <<>>, 0, <<>>)

Outcome(out, exception, fields) == [out |-> out, exc |-> exception, f |-> fields]

\* Lines 127-148 for one element of api_results, in the order the code runs them:
\* "skip" is a `continue`, "raise" an exception nothing in run() catches.
Normalize(record) ==
    IF ~record.dict
        THEN Outcome("raise", "AttributeError", NoFields)
    ELSE IF ~Truthy(record.permitID)
        THEN Outcome("skip", "none", NoFields)
    ELSE IF ~HasStrip(record.establishmentName) \/ ~HasStrip(record.addressLine1)
        THEN Outcome("raise", "AttributeError", NoFields)
    ELSE IF ~HasStrip(record.inspectionDate)
        THEN Outcome("raise", "AttributeError", NoFields)
    ELSE IF ScoreRejected(record.score)
        THEN Outcome("skip", "none", NoFields)
    ELSE IF ~HasStrip(record.purpose)
        THEN Outcome("raise", "AttributeError", NoFields)
    ELSE Outcome("ok", "none",
                 Fields(PyStr(record.permitID),
                        GetStripped(record.establishmentName, <<"N/A">>),
                        GetStripped(record.addressLine1, <<>>),
                        Category(record.permitType),
                        SplitFirst(IF record.inspectionDate.t = "missing" THEN <<>>
                                   ELSE record.inspectionDate.s, "T"),
                        record.score.n,
                        GetStripped(record.purpose, <<>>)))

(* ------------------------------- store -------------------------------- *)
EmptyStore == [restaurants |-> {}, inspections |-> <<>>]

RestaurantRow(path, f) ==
    [establishment_id |-> f.establishment_id, path |-> path, name |-> f.name,
     address |-> f.address, category |-> f.category]

InspectionRow(path, f) ==
    [establishment_id |-> f.establishment_id, establishment_path |-> path,
     inspection_date |-> f.date, score |-> f.score, purpose |-> f.purpose]

\* the columns the SELECT of lines 157-160 compares
NaturalKey(row) ==
    <<row.establishment_id, row.establishment_path, row.inspection_date, row.score>>

Keys(rows) == {NaturalKey(rows[i]) : i \in 1..Len(rows)}

CountKey(rows, k) == Cardinality({i \in 1..Len(rows) : NaturalKey(rows[i]) = k})

\* INSERT IGNORE: the row that is there stays as it is
UpsertRestaurantIgnore(rows, path, f) ==
    IF \E r \in rows : r.establishment_id = f.establishment_id /\ r.path = path
        THEN rows
    ELSE rows \cup {RestaurantRow(path, f)}

\* INSERT INTO restaurants ... ON DUPLICATE KEY UPDATE name, address, category
\* under PRIMARY KEY (establishment_id, path)
UpsertRestaurant(rows, path, f) ==
    {r \in rows : ~(r.establishment_id = f.establishment_id /\ r.path = path)}
        \cup {RestaurantRow(path, f)}

\* the SELECT with one more condition, `AND purpose = %s`
InspectionExistsWithPurpose(rows, path, f) ==
    \E i \in 1..Len(rows) :
        /\ rows[i].establishment_id = f.establishment_id
        /\ rows[i].establishment_path = path
        /\ rows[i].inspection_date = f.date
        /\ rows[i].score = f.score
        /\ rows[i].purpose = f.purpose

\* the SELECT with its first two parameters swapped: (path, establishment_id, ...)
InspectionExistsSwapped(rows, path, f) ==
    \E i \in 1..Len(rows) :
        /\ rows[i].establishment_id = path
        /\ rows[i].establishment_path = f.establishment_id
        /\ rows[i].inspection_date = f.date
        /\ rows[i].score = f.score

\* SELECT id FROM inspections WHERE establishment_id, establishment_path,
\* inspection_date, score match; cursor.fetchone()
InspectionExists(rows, path, f) ==
    \E i \in 1..Len(rows) :
        /\ rows[i].establishment_id = f.establishment_id
        /\ rows[i].establishment_path = path
        /\ rows[i].inspection_date = f.date
        /\ rows[i].score = f.score

\* the table emptied before the INSERT: only the new row is left
InsertInspectionAlone(rows, path, f) == <<InspectionRow(path, f)>>

\* INSERT INTO inspections (...): a new row with the next AUTO_INCREMENT id
InsertInspection(rows, path, f) == Append(rows, InspectionRow(path, f))

\* the whole normalised record appended instead of its three fields
ProjectionWhole(f) == f

\* the dict appended to all_newly_added_inspections
Projection(f) == [name |-> f.name, score |-> f.score, date |-> f.date]

(* ------------------------------ provider ------------------------------ *)
Resp(k, recs, links) == [k |-> k, recs |-> recs, links |-> links]
NoResponse == Resp("none", <<>>, <<>>)
\* the provider's data for a query: whatever it answers now (Varying), or fixed
\* for the whole behaviour and not asked for yet (Unknown)
Varying == Resp("varying", <<>>, <<>>)
Unknown == Resp("unknown", <<>>, <<>>)
\* timeout, non-2xx status (raise_for_status) or undecodable body (response.json)
TransportFailure == Resp("fail", <<>>, <<>>)
\* a falsy body that is no list (null, {}, 0, "")
FalsyBody == Resp("falsy", <<>>, <<>>)
\* a truthy body that is no list (an error object)
ObjectBody == Resp("object", <<>>, <<>>)
ListBody(recs) == Resp("list", recs, <<>>)

\* `not results`
IsFalsy(r) == r.k = "falsy" \/ (r.k = "list" /\ r.recs = <<>>)
\* `not isinstance(api_results, list)` alone: the empty list is not skipped
IsSkippedNonList(r) == r.k # "list"

\* `not isinstance(api_results, list) or not api_results`
IsSkipped(r) == r.k # "list" \/ r.recs = <<>>

Tennessee == <<"tennessee">>
Alabama == <<"alabama">>
Arizona == <<"arizona">>
Florida == <<"florida">>
Fallback == <<Tennessee, Alabama, Arizona, Florida>>
AllPaths == Range(Fallback)

Rec(id, name, type, date, score, purpose) ==
    [dict |-> TRUE, permitID |-> id, establishmentName |-> name,
     addressLine1 |-> VStr(<<"1 Main St">>), permitType |-> type,
     inspectionDate |-> date, score |-> score, purpose |-> purpose]

Joe ==
    Rec(VStr(<<"42">>), VStr(<<" ", "Joe's Deli", " ">>), VList(<< <<"Food">>, <<"Bar">> >>),
        VStr(<<"2024-03-01", "T", "00:00:00">>), VInt(91), VStr(<<"Routine">>))
\* the same inspection of the same establishment, renamed and reported without a time
JoeRenamed ==
    Rec(VStr(<<"42">>), VStr(<<"Joe's Diner">>), VStr(<<"Food">>),
        VStr(<<"2024-03-01">>), VInt(91), VStr(<<"Follow-up", " ">>))
JoeZero == [Joe EXCEPT !.score = VInt(0)]
NullNameZero == [Joe EXCEPT !.establishmentName = VNull, !.score = VInt(0)]
Moe ==
    Rec(VStr(<<"7">>), VMissing, VMissing, VStr(<<"2024-03-02">>), VInt(1), VMissing)
MoeNoScore == [Moe EXCEPT !.score = VNull]
NoId == [Moe EXCEPT !.permitID = VStr(<<>>)]
NotARecord == [Moe EXCEPT !.dict = FALSE]

\* shapes of permitType and of establishmentName the provider sends
PermitTypes ==
    {VStr(<<"C">>), VStr(<<" ", "C", " ">>), VInt(5), VNull, VMissing, VList(<<>>),
     VList(<< <<"A">> >>), VList(<< <<"A">>, <<"B">> >>),
     VList(<< <<" ", "A">>, <<"B", " ">> >>)}
Names == {VStr(<<" ", "Joe's Deli", " ">>), VStr(<<"Joe's Diner">>)}

\* records of one establishment of Tennessee, in every shape of permitType
RawRecords ==
    {Rec(VStr(<<"42">>), n, t, VStr(<<"2024-03-01", "T", "00:00:00">>), VInt(91),
         VStr(<<"Routine">>)) : n \in Names, t \in PermitTypes}
        \cup {JoeZero, NullNameZero, [Joe EXCEPT !.permitID = VStr(<<>>)]}

\* the records the provider may hold for a path
Catalogue(path) ==
    IF path = Tennessee THEN {Joe, JoeRenamed, JoeZero, NullNameZero}
    ELSE IF path = Alabama THEN {Moe, MoeNoScore, NoId, NotARecord}
    ELSE {}

\* what the provider may answer to the POST with programName ""
Responses(path) ==
    IF path = Tennessee
        THEN {TransportFailure, FalsyBody, ObjectBody}
                 \cup {ListBody(b) : b \in SeqsUpTo(Catalogue(path), MaxBatch)}
    ELSE IF path = Alabama
        THEN {TransportFailure} \cup {ListBody(<<x>>) : x \in Catalogue(path)}
    ELSE IF path = Arizona THEN {TransportFailure}
    ELSE {FalsyBody}

\* what the provider may answer to the POST with programName "Food"
RetryResponses(path) ==
    IF path = Tennessee
        THEN {TransportFailure, FalsyBody} \cup {ListBody(<<x>>) : x \in Catalogue(path)}
    ELSE Responses(path)

(* ------------------------------ directory ----------------------------- *)
Page(links) == Resp("page", <<>>, links)

\* href attributes of the anchors `div.jurisdiction-section a.search-button` selects
Hrefs ==
    {VStr(<<"/", "tennessee">>), VStr(<<"/", "alabama", "/">>),
     VStr(<<"/", "test", "-county">>), VStr(<<"/", "pre-", "staging", "/">>),
     VStr(<<"https://host", "/", "arizona">>)}

\* what the portal may answer to the GET of BASE_URL
DirectoryResponses == {TransportFailure} \cup {Page(l) : l \in SeqsUpTo(Hrefs, MaxLinks)}

\* the test/staging filter of line 46 left out
KeepsLinkUnfiltered(href) == Truthy(href) /\ Head(href.s) = "/"

\* `href and href.startswith('/')`, then the test/staging filter on href.strip('/')
KeepsLink(href) ==
    /\ Truthy(href)
    /\ Head(href.s) = "/"
    /\ ~Contains(Strip(href.s, "/"), "test")
    /\ ~Contains(Strip(href.s, "/"), "staging")

\* discovered_paths after the loop over location_links
DiscoveredPaths(links) == {Strip(links[i].s, "/") : i \in {j \in 1..Len(links) : KeepsLink(links[j])}}

\* list(discovered_paths): the set in some order
Orderings(S) == {q \in SeqsUpTo(S, Cardinality(S)) : Len(q) = Cardinality(S) /\ Range(q) = S}

\* the except branch and the no-links branch returning [] instead of the fallback
DiscoverResultsNoFallback(r) ==
    IF r.k = "fail" \/ r.links = <<>> THEN {<<>>}
    ELSE Orderings(DiscoveredPaths(r.links))

\* the lists _discover_paths may return for one answer of the portal
DiscoverResults(r) ==
    IF r.k = "fail" \/ r.links = <<>> THEN {Fallback}
    ELSE Orderings(DiscoveredPaths(r.links))

(* ------------------------------- run() -------------------------------- *)
NoRequests == [p \in AllPaths |-> <<>>]
NoCommits == [p \in AllPaths |-> 0]
VaryingUpstream == [p \in AllPaths |-> [dflt |-> Varying, food |-> Varying]]
StableUpstream == [p \in AllPaths |-> [dflt |-> Unknown, food |-> Unknown]]

NoneOpened == [sessions |-> 0, connections |-> 0]
NoRuns == <<>>
NoneReported == <<>>

Started ==
    /\ db = EmptyStore
    /\ tx = EmptyStore
    /\ conn = "closed"
    /\ pc = "idle"
    /\ response = NoResponse
    /\ paths = <<>>
    /\ idx = 0
    /\ api_results = NoResponse
    /\ ridx = 0
    /\ cur = NoFields
    /\ all_new = <<>>
    /\ exc = "none"
    /\ requests = NoRequests
    /\ commits = NoCommits
    /\ delays = 0
    /\ base = 0
    /\ repeat = FALSE
    /\ session = 0
    /\ opened = NoneOpened
    /\ runs = NoRuns
    /\ events = <<>>
    /\ reported = NoneReported

\* the provider's data may change at any time
Init == upstream = VaryingUpstream /\ Started

\* the provider's data stays what it is for the whole behaviour
InitStable == upstream = StableUpstream /\ Started

Between == pc \in {"idle", "returned", "raised"}

\* run() is called (bot.py line 18, or line 191 of the script): line 104, up to the GET of the directory
StartRun ==
    /\ Between
    /\ repeat' = (pc = "returned")
    /\ pc' = "discover_get"
    /\ idx' = 0
    /\ all_new' = <<>>
    /\ exc' = "none"
    /\ requests' = NoRequests
    /\ commits' = NoCommits
    /\ delays' = 0
    /\ base' = Len(db.inspections)
    /\ opened' = NoneOpened
    /\ events' = <<>>
    /\ UNCHANGED <<upstream, db, tx, conn, response, paths, api_results, ridx, cur,
                   session, runs, reported>>

\* line 30: session.get(BASE_URL)
DiscoverGet ==
    /\ pc = "discover_get"
    /\ response' \in DirectoryResponses
    /\ pc' = "discover_parse"
    /\ UNCHANGED <<upstream, db, tx, conn, paths, idx, api_results, ridx, cur,
                   all_new, exc, requests, commits, delays, base, repeat,
                   session, opened, runs, events, reported>>

\* position after the iteration of paths[i]: the next path, or line 180
AfterPath(ps, i) == IF i < Len(ps) THEN "post1" ELSE "return"

\* lines 31-53 and 105-107: the path list, and into the loop
DiscoverParse ==
    /\ pc = "discover_parse"
    /\ paths' \in DiscoverResults(response)
    /\ repeat' = (repeat /\ Range(paths') = Range(paths))
    /\ response' = NoResponse
    /\ idx' = 1
    /\ pc' = AfterPath(paths', 0)
    /\ UNCHANGED <<upstream, db, tx, conn, api_results, ridx, cur,
                   all_new, exc, requests, commits, delays, base,
                   session, opened, runs, events, reported>>

(* --------------------- _get_recent_inspections_for_path --------------- *)
Step(next, results, exception) == [pc |-> next, results |-> results, exc |-> exception]

\* the first POST outside the try block: its failure leaves run()
AfterFirstPostUncaught(r) ==
    IF r.k = "fail" THEN Step("raised", NoResponse, "RequestsError")
    ELSE IF IsFalsy(r) THEN Step("post2", NoResponse, "none")
    ELSE Step("check", r, "none")

\* the retry taken on a failure as well as on a falsy body
AfterFirstPostRetryAlways(r) ==
    IF r.k = "fail" \/ IsFalsy(r) THEN Step("post2", NoResponse, "none")
    ELSE Step("check", r, "none")

\* lines 82-87 and 93-96 on the answer to the first POST: a failure is caught and
\* gives [], a falsy body leads to the retry, anything else is returned
AfterFirstPost(r) ==
    IF r.k = "fail" THEN Step("check", ListBody(<<>>), "none")
    ELSE IF IsFalsy(r) THEN Step("post2", NoResponse, "none")
    ELSE Step("check", r, "none")

\* lines 90-96 on the answer to the retry
AfterSecondPost(r) ==
    IF r.k = "fail" THEN Step("check", ListBody(<<>>), "none")
    ELSE Step("check", r, "none")

\* a POST as logged: its programName, the kind of answer and the answer's length
Exchange(program, r) == [program |-> program, k |-> r.k, n |-> Len(r.recs)]

\* the provider's answer to a POST, and its data as known after the answer
Answers(known, all) == IF known \in {Varying, Unknown} THEN all ELSE {known}
Learnt(known, r) == IF known = Varying THEN Varying ELSE r

\* curl_requests.Session() without its `with` block: no session is ever closed
SessionsLeftOpen(open, next) == open

\* lines 111-112: the sessions open after a POST made with `open` of them open;
\* the `with` block closes the session when _get_recent_inspections_for_path is
\* left, that is unless the retry is still to come
SessionsAfterPost(open, next) == IF next = "post2" THEN open ELSE open - 1

\* lines 111 and 81: a new session, the POST with programName "" and what follows it
Post1 ==
    /\ pc = "post1"
    /\ \E r \in Answers(upstream[paths[idx]].dflt, Responses(paths[idx])) :
        /\ upstream' = [upstream EXCEPT ![paths[idx]].dflt = Learnt(@, r)]
        /\ pc' = AfterFirstPost(r).pc
        /\ api_results' = AfterFirstPost(r).results
        /\ exc' = AfterFirstPost(r).exc
        /\ requests' = [requests EXCEPT ![paths[idx]] = Append(@, Exchange("", r))]
        /\ session' = SessionsAfterPost(session + 1, AfterFirstPost(r).pc)
    /\ opened' = [opened EXCEPT !.sessions = @ + 1]
    /\ UNCHANGED <<db, tx, conn, response, paths, idx, ridx, cur, all_new,
                   commits, delays, base, repeat, runs, events, reported>>

\* lines 88-89: the POST with programName "Food" and what follows it
Post2 ==
    /\ pc = "post2"
    /\ \E r \in Answers(upstream[paths[idx]].food, RetryResponses(paths[idx])) :
        /\ upstream' = [upstream EXCEPT ![paths[idx]].food = Learnt(@, r)]
        /\ pc' = AfterSecondPost(r).pc
        /\ api_results' = AfterSecondPost(r).results
        /\ exc' = AfterSecondPost(r).exc
        /\ requests' = [requests EXCEPT ![paths[idx]] = Append(@, Exchange("Food", r))]
        /\ session' = SessionsAfterPost(session, AfterSecondPost(r).pc)
    /\ UNCHANGED <<db, tx, conn, response, paths, idx, ridx, cur, all_new,
                   commits, delays, base, repeat, opened, runs, events, reported>>

(* ------------------------------ the loop ------------------------------ *)
\* the `continue` without the time.sleep() of line 117
SkipPathNoDelay ==
    /\ pc = "check"
    /\ IsSkipped(api_results)
    /\ api_results' = NoResponse
    /\ idx' = idx + 1
    /\ pc' = AfterPath(paths, idx)
    /\ UNCHANGED <<upstream, db, tx, conn, response, paths, ridx, cur, all_new,
                   exc, requests, commits, delays, base, repeat,
                   session, opened, runs, events, reported>>

\* lines 114-118: nothing usable, sleep and go to the next path
SkipPath ==
    /\ pc = "check"
    /\ IsSkipped(api_results)
    /\ delays' = delays + 1
    /\ api_results' = NoResponse
    /\ idx' = idx + 1
    /\ pc' = AfterPath(paths, idx)
    /\ UNCHANGED <<upstream, db, tx, conn, response, paths, ridx, cur, all_new,
                   exc, requests, commits, base, repeat,
                   session, opened, runs, events, reported>>

\* lines 114 and 121: a non-empty list, sleep and go on to the store
Pace ==
    /\ pc = "check"
    /\ ~IsSkipped(api_results)
    /\ delays' = delays + 1
    /\ pc' = "connect"
    /\ UNCHANGED <<upstream, db, tx, conn, response, paths, idx, api_results,
                   ridx, cur, all_new, exc, requests, commits, base, repeat,
                   session, opened, runs, events, reported>>

\* position after the record at ridx: the next record, or line 178
AfterRecord(results, i) == IF i < Len(results.recs) THEN "record" ELSE "commit"

\* lines 123-126: get_db_connection() succeeds, first record (if there is one)
Connect ==
    /\ pc = "connect"
    /\ conn' = "open"
    /\ tx' = db
    /\ ridx' = IF api_results.recs # <<>> THEN 1 ELSE 0
    /\ pc' = AfterRecord(api_results, 0)
    /\ opened' = [opened EXCEPT !.connections = @ + 1]
    /\ UNCHANGED <<upstream, db, response, paths, idx, api_results, cur,
                   all_new, exc, requests, commits, delays, base, repeat,
                   session, runs, events, reported>>

\* the connection in autocommit mode: what was written stays when it is closed
AbortKeepsWrites(e) ==
    /\ pc' = "raised"
    /\ exc' = e
    /\ conn' = "closed"
    /\ db' = tx
    /\ api_results' = NoResponse
    /\ ridx' = 0
    /\ cur' = NoFields
    /\ all_new' = <<>>
    /\ events' = <<>>
    /\ UNCHANGED <<upstream, tx, response, paths, idx, requests, commits, delays,
                   base, repeat, session, opened, runs, reported>>

\* an exception leaves run(): the `with` block closes the connection, which drops
\* its uncommitted writes, and the frame with its locals is gone
Abort(e) ==
    /\ pc' = "raised"
    /\ exc' = e
    /\ conn' = "closed"
    /\ tx' = db
    /\ api_results' = NoResponse
    /\ ridx' = 0
    /\ cur' = NoFields
    /\ all_new' = <<>>
    /\ events' = <<>>
    /\ UNCHANGED <<upstream, db, response, paths, idx, requests,
                   commits, delays, base, repeat,
                   session, opened, runs, reported>>

\* mysql.connector.Error from connect(), execute() or commit()
StoreFailure ==
    /\ pc \in {"connect", "upsert", "select", "insert", "commit"}
    /\ Abort("StoreError")

NextRecord ==
    /\ pc' = AfterRecord(api_results, ridx)
    /\ ridx' = IF ridx < Len(api_results.recs) THEN ridx + 1 ELSE 0
    /\ cur' = NoFields

\* lines 127-148 for api_results[ridx]
NormalizeRecord ==
    /\ pc = "record"
    /\ LET o == Normalize(api_results.recs[ridx])
       IN  CASE o.out = "raise" -> Abort(o.exc)
             [] o.out = "skip" ->
                    /\ NextRecord
                    /\ UNCHANGED <<upstream, db, tx, conn, response, paths, idx,
                                   api_results, all_new, exc, requests, commits,
                                   delays, base, repeat,
                                   session, opened, runs, events, reported>>
             [] OTHER ->
                    /\ cur' = o.f
                    /\ pc' = "upsert"
                    /\ UNCHANGED <<upstream, db, tx, conn, response, paths, idx,
                                   api_results, ridx, all_new, exc, requests,
                                   commits, delays, base, repeat,
                                   session, opened, runs, events, reported>>

\* the INSERT INTO restaurants left for later: nothing is written before the SELECT
UpsertDeferred ==
    /\ pc = "upsert"
    /\ pc' = "select"
    /\ UNCHANGED <<upstream, db, tx, conn, response, paths, idx, api_results, ridx,
                   cur, all_new, exc, requests, commits, delays, base, repeat,
                   session, opened, runs, events, reported>>

\* the SELECT's `continue` placed before the upsert: a record whose inspection is
\* stored already writes nothing
UpsertIfNew ==
    /\ pc = "upsert"
    /\ tx' = IF InspectionExists(tx.inspections, paths[idx], cur) THEN tx
             ELSE [tx EXCEPT !.restaurants = UpsertRestaurant(@, paths[idx], cur)]
    /\ pc' = "select"
    /\ UNCHANGED <<upstream, db, conn, response, paths, idx, api_results, ridx,
                   cur, all_new, exc, requests, commits, delays, base, repeat,
                   session, opened, runs, events, reported>>

\* lines 151-154
Upsert ==
    /\ pc = "upsert"
    /\ tx' = [tx EXCEPT !.restaurants = UpsertRestaurant(@, paths[idx], cur)]
    /\ pc' = "select"
    /\ UNCHANGED <<upstream, db, conn, response, paths, idx, api_results, ridx,
                   cur, all_new, exc, requests, commits, delays, base, repeat,
                   session, opened, runs, events, reported>>

\* lines 157-162: the row exists, `continue`
SelectFound ==
    /\ pc = "select"
    /\ InspectionExists(tx.inspections, paths[idx], cur)
    /\ NextRecord
    /\ UNCHANGED <<upstream, db, tx, conn, response, paths, idx, api_results,
                   all_new, exc, requests, commits, delays, base, repeat,
                   session, opened, runs, events, reported>>

\* lines 157-164: no such row
SelectNone ==
    /\ pc = "select"
    /\ ~InspectionExists(tx.inspections, paths[idx], cur)
    /\ pc' = "insert"
    /\ UNCHANGED <<upstream, db, tx, conn, response, paths, idx, api_results,
                   ridx, cur, all_new, exc, requests, commits, delays, base, repeat,
                   session, opened, runs, events, reported>>

\* lines 167-176
Insert ==
    /\ pc = "insert"
    /\ tx' = [tx EXCEPT !.inspections = InsertInspection(@, paths[idx], cur)]
    /\ all_new' = Append(all_new, Projection(cur))
    /\ events' = Append(events, InspectionRow(paths[idx], cur))
    /\ NextRecord
    /\ UNCHANGED <<upstream, db, conn, response, paths, idx, api_results,
                   exc, requests, commits, delays, base, repeat,
                   session, opened, runs, reported>>

\* line 178 and the end of the `with` block, then the next path
Commit ==
    /\ pc = "commit"
    /\ db' = tx
    /\ conn' = "closed"
    /\ commits' = [commits EXCEPT ![paths[idx]] = @ + 1]
    /\ api_results' = NoResponse
    /\ idx' = idx + 1
    /\ pc' = AfterPath(paths, idx)
    /\ UNCHANGED <<upstream, tx, response, paths, ridx, cur, all_new, exc,
                   requests, delays, base, repeat,
                   session, opened, runs, events, reported>>

\* bot.py line 18: the events of the list run() returned are in the notifier's hands
Handed(rep, rows) ==
    [k \in DOMAIN rep \cup Keys(rows) |->
        (IF k \in DOMAIN rep THEN rep[k] ELSE 0) + CountKey(rows, k)]

\* lines 180-181, run() called by the script itself (lines 183-190)
Return ==
    /\ pc = "return"
    /\ pc' = "returned"
    /\ UNCHANGED <<upstream, db, tx, conn, response, paths, idx, api_results,
                   ridx, cur, all_new, exc, requests, commits, delays, base, repeat,
                   session, opened, runs, events, reported>>

\* lines 180-181, run() called by run_bot (bot.py line 18)
ReturnToBot ==
    /\ pc = "return"
    /\ pc' = "returned"
    /\ reported' = Handed(reported, events)
    /\ UNCHANGED <<upstream, db, tx, conn, response, paths, idx, api_results,
                   ridx, cur, all_new, exc, requests, commits, delays, base, repeat,
                   session, opened, runs, events>>

Next ==
    \/ StartRun
    \/ DiscoverGet
    \/ DiscoverParse
    \/ Post1
    \/ Post2
    \/ SkipPath
    \/ Pace
    \/ Connect
    \/ StoreFailure
    \/ NormalizeRecord
    \/ Upsert
    \/ SelectFound
    \/ SelectNone
    \/ Insert
    \/ Commit
    \/ Return

Spec == Init /\ [][Next]_vars

SpecStable == InitStable /\ [][Next]_vars

\* every run is one of run_bot (bot.py lines 16-22)
NextBot ==
    \/ StartRun
    \/ DiscoverGet
    \/ DiscoverParse
    \/ Post1
    \/ Post2
    \/ SkipPath
    \/ Pace
    \/ Connect
    \/ StoreFailure
    \/ NormalizeRecord
    \/ Upsert
    \/ SelectFound
    \/ SelectNone
    \/ Insert
    \/ Commit
    \/ ReturnToBot

SpecBot == Init /\ [][NextBot]_vars

(* ------------------------- one batch of records ------------------------ *)
\* lines 123-126 of the first run on an empty store: Tennessee alone was
\* discovered, its POST answered a list of records, the connection is open
InitBatch ==
    /\ upstream = VaryingUpstream
    /\ db = EmptyStore
    /\ tx = EmptyStore
    /\ conn = "open"
    /\ pc = "record"
    /\ response = NoResponse
    /\ paths = <<Tennessee>>
    /\ idx = 1
    /\ api_results \in {ListBody(b) : b \in SeqsUpTo(RawRecords, MaxBatch) \ {<<>>}}
    /\ ridx = 1
    /\ cur = NoFields
    /\ all_new = <<>>
    /\ exc = "none"
    /\ requests = [NoRequests EXCEPT ![Tennessee] = <<Exchange("", api_results)>>]
    /\ commits = NoCommits
    /\ delays = 1
    /\ base = 0
    /\ repeat = FALSE
    /\ session = 0
    /\ opened = [sessions |-> 1, connections |-> 1]
    /\ runs = NoRuns
    /\ events = <<>>
    /\ reported = NoneReported

\* lines 126-181 from there
NextBatch ==
    \/ StoreFailure
    \/ NormalizeRecord
    \/ Upsert
    \/ SelectFound
    \/ SelectNone
    \/ Insert
    \/ Commit
    \/ Return

SpecBatch == InitBatch /\ [][NextBatch]_vars

(* ----------------------- two runs on one source ----------------------- *)
\* Two processes call run() on the same store (nothing in bot.py or in run() keeps
\* a second process from starting) and are both at line 123 with the answer to
\* their own POST for Tennessee. The tables are InnoDB (database_setup.py lines 38
\* and 51) at its default isolation level: a write locks the restaurants row until
\* the transaction ends, a SELECT reads the snapshot taken by the transaction's
\* first SELECT plus the transaction's own writes.
Runs == {1, 2}
Other(r) == 3 - r

Ann ==
    Rec(VStr(<<"9">>), VStr(<<"Ann's Cafe">>), VStr(<<"Food">>),
        VStr(<<"2024-03-02">>), VInt(88), VStr(<<"Routine">>))

\* the records Tennessee may answer to either run
PairRecords == {Joe, Ann, JoeZero}

NoView == [taken |-> FALSE, rows |-> <<>>]
Snapshot(rows) == [taken |-> TRUE, rows |-> rows]

\* a run at line 123 with its api_results
Fetched(batch) ==
    [pc |-> "connect", api_results |-> ListBody(batch), ridx |-> 0, cur |-> NoFields,
     all_new |-> <<>>, exc |-> "none", view |-> NoView, own |-> <<>>, ups |-> {}]

solo == <<upstream, tx, conn, pc, response, paths, idx, api_results, ridx, cur,
          all_new, exc, requests, commits, delays, base, repeat, session, opened,
          events, reported>>

InitPair ==
    /\ upstream = VaryingUpstream
    /\ db = EmptyStore
    /\ tx = EmptyStore
    /\ conn = "closed"
    /\ pc = "idle"
    /\ response = NoResponse
    /\ paths = <<>>
    /\ idx = 0
    /\ api_results = NoResponse
    /\ ridx = 0
    /\ cur = NoFields
    /\ all_new = <<>>
    /\ exc = "none"
    /\ requests = NoRequests
    /\ commits = NoCommits
    /\ delays = 0
    /\ base = 0
    /\ repeat = FALSE
    /\ session = 0
    /\ opened = NoneOpened
    /\ runs \in [Runs -> {Fetched(b) : b \in SeqsUpTo(PairRecords, MaxBatch) \ {<<>>}}]
    /\ events = <<>>
    /\ reported = NoneReported

\* the restaurants rows a transaction holds the lock of: those it has written
Locked(r, path, f) ==
    \E u \in runs[r].ups : u.establishment_id = f.establishment_id /\ u.path = path

\* the inspections rows a SELECT of a transaction sees
Visible(view, own) == view.rows \o own

\* a UNIQUE KEY on the natural key with INSERT IGNORE: rows whose key is committed
\* already are dropped
PublishUnique(committed, own) ==
    committed \o SelectSeq(own, LAMBDA row :
        ~\E i \in 1..Len(committed) :
            /\ committed[i].establishment_id = row.establishment_id
            /\ committed[i].establishment_path = row.establishment_path
            /\ committed[i].inspection_date = row.inspection_date
            /\ committed[i].score = row.score)

\* the inspections table after the commit of a transaction that inserted `own`:
\* the table has no unique key but its id (database_setup.py lines 43-51)
Publish(committed, own) == committed \o own

\* the restaurants table after the commit of a transaction that wrote `ups`
PublishUpserts(committed, ups) ==
    {c \in committed :
        ~\E u \in ups : u.establishment_id = c.establishment_id /\ u.path = c.path}
        \cup ups

PairStep(r, step) == runs' = [runs EXCEPT ![r] = step] /\ UNCHANGED <<db, solo>>

PairNextRecord(run) ==
    [run EXCEPT !.pc = AfterRecord(run.api_results, run.ridx),
                !.ridx = IF run.ridx < Len(run.api_results.recs) THEN run.ridx + 1 ELSE 0,
                !.cur = NoFields]

\* the exception leaves run(): rollback, the locks are released
PairAborted(run, e) ==
    [run EXCEPT !.pc = "raised", !.exc = e, !.api_results = NoResponse, !.ridx = 0,
                !.cur = NoFields, !.all_new = <<>>, !.view = NoView, !.own = <<>>,
                !.ups = {}]

\* lines 123-126
PairConnect(r) ==
    /\ runs[r].pc = "connect"
    /\ PairStep(r, [runs[r] EXCEPT !.pc = AfterRecord(runs[r].api_results, 0),
                                   !.ridx = IF runs[r].api_results.recs # <<>> THEN 1 ELSE 0])

\* mysql.connector.Error, a lock wait timeout or a deadlock among them
PairStoreFailure(r) ==
    /\ runs[r].pc \in {"connect", "upsert", "select", "insert", "commit"}
    /\ PairStep(r, PairAborted(runs[r], "StoreError"))

\* lines 127-148
PairNormalizeRecord(r) ==
    /\ runs[r].pc = "record"
    /\ LET o == Normalize(runs[r].api_results.recs[runs[r].ridx])
       IN  PairStep(r, CASE o.out = "raise" -> PairAborted(runs[r], o.exc)
                         [] o.out = "skip" -> PairNextRecord(runs[r])
                         [] OTHER -> [runs[r] EXCEPT !.cur = o.f, !.pc = "upsert"])

\* lines 151-154: waits while the other transaction holds the row
PairUpsert(r) ==
    /\ runs[r].pc = "upsert"
    /\ ~Locked(Other(r), Tennessee, runs[r].cur)
    /\ PairStep(r, [runs[r] EXCEPT !.ups = UpsertRestaurant(@, Tennessee, runs[r].cur),
                                   !.pc = "select"])

\* lines 157-164
PairSelect(r) ==
    /\ runs[r].pc = "select"
    /\ LET view == IF runs[r].view.taken THEN runs[r].view ELSE Snapshot(db.inspections)
           seen == [runs[r] EXCEPT !.view = view]
       IN  PairStep(r, IF InspectionExists(Visible(view, runs[r].own), Tennessee, runs[r].cur)
                           THEN PairNextRecord(seen)
                       ELSE [seen EXCEPT !.pc = "insert"])

\* lines 167-176
PairInsert(r) ==
    /\ runs[r].pc = "insert"
    /\ PairStep(r, PairNextRecord(
           [runs[r] EXCEPT !.own = InsertInspection(@, Tennessee, runs[r].cur),
                           !.all_new = Append(@, Projection(runs[r].cur))]))

\* lines 178-181: the commit, and the return with all_new (Tennessee is the one
\* source of the run)
PairCommit(r) ==
    /\ runs[r].pc = "commit"
    /\ db' = [restaurants |-> PublishUpserts(db.restaurants, runs[r].ups),
              inspections |-> Publish(db.inspections, runs[r].own)]
    /\ runs' = [runs EXCEPT ![r] = [@ EXCEPT !.pc = "returned", !.api_results = NoResponse,
                                             !.view = NoView, !.ups = {}]]
    /\ UNCHANGED solo

NextPair ==
    \E r \in Runs :
        \/ PairConnect(r)
        \/ PairStoreFailure(r)
        \/ PairNormalizeRecord(r)
        \/ PairUpsert(r)
        \/ PairSelect(r)
        \/ PairInsert(r)
        \/ PairCommit(r)

SpecPair == InitPair /\ [][NextPair]_vars

(* ------------------------------- claims ------------------------------- *)
InBatch == {"record", "upsert", "select", "insert", "commit"}

RowCounts(store) == <<Cardinality(store.restaurants), Len(store.inspections)>>

\* C1: when the provider's data stay what they are, a run that follows a run that
\* returned, and finds the same sources, never changes the number of restaurants
\* or inspections rows, and what it returns is the empty list.
C1_Idempotent ==
    /\ [](pc = "returned" /\ repeat => all_new = <<>>)
    /\ [][repeat' => RowCounts(db') = RowCounts(db)]_vars

\* a second run has returned after committing batches over a store the first filled
C1_Witness ==
    /\ pc = "returned"
    /\ repeat
    /\ Len(db.inspections) >= 2
    /\ \E p \in AllPaths : commits[p] = 1 /\ Len(requests[p]) = 2

NoTwoRows(rows) ==
    \A i, j \in 1..Len(rows) : NaturalKey(rows[i]) = NaturalKey(rows[j]) => i = j

\* C2: neither the committed inspections table nor the open transaction's view of it
\* ever holds two rows with the same (establishment_id, path, date, score), and the
\* INSERT is reached only for a key the view does not hold.
C2_NaturalKeyUnique ==
    /\ NoTwoRows(db.inspections)
    /\ NoTwoRows(tx.inspections)
    /\ pc = "insert" =>
           \A i \in 1..Len(tx.inspections) :
               NaturalKey(tx.inspections[i]) # <<cur.establishment_id, paths[idx], cur.date, cur.score>>

\* the second record of a batch has the key of a row the first one inserted, and the
\* SELECT has found it
C2_Witness ==
    /\ pc = "commit"
    /\ api_results = ListBody(<<Joe, JoeRenamed>>)
    /\ Len(tx.inspections) = Len(db.inspections) + 1

Last(q) == q[Len(q)]
FetchFailed(p) == requests[p] # <<>> /\ Last(requests[p]).k = "fail"
FetchedRecords(p) == requests[p] # <<>> /\ Last(requests[p]).k = "list" /\ Last(requests[p]).n > 0

\* C3: a transport failure of the first or of the retry request never leaves run();
\* the source it hits gets the empty list, no transaction and no commit; and a run
\* that returns has fetched every discovered source, committed every source that
\* answered with records, and returns one entry per row inserted since it started.
C3_TransportFaultIsolated ==
    /\ exc # "RequestsError"
    /\ \A p \in AllPaths :
           FetchFailed(p) =>
               /\ commits[p] = 0
               /\ (pc \in {"check", "connect"} \cup InBatch /\ paths[idx] = p) =>
                      (pc = "check" /\ api_results = ListBody(<<>>))
    /\ pc = "returned" =>
           /\ \A p \in Range(paths) :
                  /\ requests[p] # <<>>
                  /\ FetchedRecords(p) => commits[p] = 1
           /\ Len(all_new) = Len(db.inspections) - base
           /\ \A i \in 1..Len(all_new) :
                  /\ all_new[i].score = db.inspections[base + i].score
                  /\ all_new[i].date = db.inspections[base + i].inspection_date

\* a run has returned Alabama's new inspection although Tennessee's retry request failed
C3_Witness ==
    /\ pc = "returned"
    /\ FetchFailed(Tennessee)
    /\ Len(requests[Tennessee]) = 2
    /\ FetchFailed(Arizona)
    /\ commits[Alabama] = 1
    /\ Len(all_new) = 1

\* C4: once a store failure has hit source k, its uncommitted writes are gone and
\* every source after k in paths_to_scrape is still fetched in the same run.
C4_StoreFaultIsolated ==
    exc = "StoreError" =>
        /\ tx = db
        /\ \A j \in (idx + 1)..Len(paths) : requests[paths[j]] # <<>>

\* C5: no exception raised by the shape of a record, by a transport failure or by
\* the discovery leaves run(), and a run that returns has fetched every
\* discovered source once.
C5_NoExceptionEscapes ==
    /\ exc \notin {"AttributeError", "RequestsError"}
    /\ pc = "returned" => \A p \in Range(paths) : requests[p] # <<>> /\ commits[p] <= 1

\* the records the rejection filter is about: no establishment id, or a null or zero score
Rejectable(record) == ~Truthy(record.permitID) \/ ScoreRejected(record.score)

\* C6: no inspections row has a zero score, and the step that handles a record
\* with no establishment id or with a null or zero score writes nothing and goes
\* on with the next record of the batch (or with the commit after the last one).
C6_RejectionFilter ==
    /\ [](\A i \in 1..Len(tx.inspections) : tx.inspections[i].score # 0)
    /\ [][(pc = "record" /\ Rejectable(api_results.recs[ridx])) =>
              (tx' = tx /\ db' = db /\ pc' \in {"record", "commit"})]_vars

SameEntity(a, b) == a.establishment_id = b.establishment_id /\ a.path = b.path

OneRowPerKey(rows) == \A a, b \in rows : SameEntity(a, b) => a = b

\* C7: neither the committed restaurants table nor the transaction's view of it
\* holds two rows for one (establishment_id, path), and right after the upsert of
\* a record the row of its key holds that record's name, address and category.
C7_EntityOverwrite ==
    /\ OneRowPerKey(db.restaurants)
    /\ OneRowPerKey(tx.restaurants)
    /\ pc \in {"select", "insert"} => RestaurantRow(paths[idx], cur) \in tx.restaurants

\* the upsert has just replaced the committed name of an establishment, in place
C7_Witness ==
    /\ pc = "select"
    /\ \E r \in db.restaurants :
           SameEntity(r, RestaurantRow(paths[idx], cur)) /\ r.name # cur.name
    /\ Cardinality(tx.restaurants) = Cardinality(db.restaurants)

\* C8: when the GET of the directory fails or the page has no matching anchor,
\* _discover_paths raises nothing and returns the four fallback paths, and run()
\* goes on to fetch the first of them.
C8_FallbackDiscovery ==
    [][(pc = "discover_parse" /\ (response.k = "fail" \/ response.links = <<>>)) =>
           (paths' = Fallback /\ Len(paths') = 4 /\ pc' = "post1" /\ exc' = "none")]_vars

\* the fallback list is in place after a discovery that found nothing, before any POST
C8_Witness ==
    /\ pc = "post1"
    /\ idx = 1
    /\ paths = Fallback
    /\ requests = NoRequests

FalsyAnswer(e) == e.k = "falsy" \/ (e.k = "list" /\ e.n = 0)

\* C9: in one run a path gets at most two POSTs: the first with programName "",
\* the second with "Food", sent if and only if the first answer was falsy (never
\* after a failure); api_results is what the last POST gave, [] if it failed.
C9_FormatVariantRetry ==
    \A p \in AllPaths :
        LET q == requests[p]
        IN  /\ Len(q) <= 2
            /\ Len(q) >= 1 => q[1].program = ""
            /\ Len(q) = 2 => (q[2].program = "Food" /\ FalsyAnswer(q[1]))
            /\ (Len(q) = 1 /\ FalsyAnswer(q[1])) => (pc = "post2" /\ paths[idx] = p)
            /\ (pc = "check" /\ paths[idx] = p) =>
                   /\ Len(q) >= 1
                   /\ Last(q).k = "fail" => api_results = ListBody(<<>>)
                   /\ Last(q).k # "fail" =>
                          (api_results.k = Last(q).k /\ Len(api_results.recs) = Last(q).n)

\* the retry with "Food" has delivered records after a falsy first answer
C9_Witness ==
    /\ pc = "check"
    /\ Len(requests[paths[idx]]) = 2
    /\ requests[paths[idx]][1].k = "list"
    /\ api_results.k = "list"
    /\ api_results.recs # <<>>

\* C10: the connection is open exactly while a batch is processed; the committed
\* store changes only by the one commit of a source, made after its last record,
\* which publishes the whole transaction; an exception publishes nothing and
\* leaves the connection closed.
C10_BatchAtomic ==
    /\ []((conn = "open" <=> pc \in InBatch) /\ (conn = "closed" => tx = db))
    /\ [](\A p \in AllPaths : commits[p] <= 1)
    /\ [](pc \in InBatch => commits[paths[idx]] = 0)
    /\ [][db' # db =>
              (pc = "commit" /\ db' = tx /\ conn' = "closed" /\ commits'[paths[idx]] = 1)]_vars
    /\ [][(pc' = "commit" /\ pc # "commit") => ridx = Len(api_results.recs)]_vars
    /\ [][pc' = "raised" => (db' = db /\ conn' = "closed")]_vars

\* both records of a batch are written in the open transaction and none is committed yet
C10_Witness ==
    /\ pc = "commit"
    /\ conn = "open"
    /\ Len(api_results.recs) = 2
    /\ Cardinality(tx.restaurants) = Cardinality(db.restaurants) + 1
    /\ Len(tx.inspections) = Len(db.inspections) + 1

ReportKeys == {"name", "score", "date"}

\* position of a path in paths_to_scrape
PathIndex(p) == CHOOSE j \in 1..Len(paths) : paths[j] = p

\* C11: all_newly_added_inspections changes only by the INSERT of an inspections
\* row, which appends the {name, score, date} of the record just inserted (a
\* rejected record and a record whose row exists append nothing); when run()
\* returns, its entries are, one for one and in order, the rows committed since the
\* run started, which lie in the order of paths_to_scrape.
C11_ResultAccumulator ==
    /\ [](pc = "returned" =>
              /\ Len(all_new) = Len(db.inspections) - base
              /\ \A i \in 1..Len(all_new) :
                     /\ DOMAIN all_new[i] = ReportKeys
                     /\ all_new[i].score = db.inspections[base + i].score
                     /\ all_new[i].date = db.inspections[base + i].inspection_date
              /\ \A i, j \in (base + 1)..Len(db.inspections) :
                     i < j => PathIndex(db.inspections[i].establishment_path)
                                  <= PathIndex(db.inspections[j].establishment_path))
    /\ [][(all_new' # all_new /\ all_new' # <<>>) =>
              /\ pc = "insert"
              /\ tx'.inspections = Append(tx.inspections, InspectionRow(paths[idx], cur))
              /\ all_new' = Append(all_new, [name |-> cur.name, score |-> cur.score,
                                             date |-> cur.date])
              /\ cur = Normalize(api_results.recs[ridx]).f]_vars
    /\ [][(pc \in InBatch /\ pc' \in InBatch /\ tx'.inspections # tx.inspections) =>
              Len(all_new') = Len(all_new) + 1]_vars

\* a run has returned one entry: Alabama's inspection was new, Tennessee's was in
\* the store already and its batch held a rejected record as well
C11_Witness ==
    /\ pc = "returned"
    /\ base = 1
    /\ Len(all_new) = 1
    /\ commits[Tennessee] = 1
    /\ commits[Alabama] = 1
    /\ Last(requests[Tennessee]).n = 2

\* the elements of a list with ", " between them, from the first to the last
JoinedInOrder(l) ==
    LET joined[i \in 0..Len(l)] ==
            IF i = 0 THEN <<>>
            ELSE IF i = 1 THEN l[1]
            ELSE joined[i - 1] \o <<",", " ">> \o l[i]
    IN  joined[Len(l)]

\* a text without the blanks at its two ends
Trimmed(s) ==
    LET inked == {i \in 1..Len(s) : s[i] # " "}
    IN  IF inked = {} THEN <<>>
        ELSE SubSeq(s, CHOOSE i \in inked : \A j \in inked : i <= j,
                       CHOOSE i \in inked : \A j \in inked : i >= j)

\* the restaurants row of the record at hand, once its upsert is done
StoredEntity == CHOOSE r \in tx.restaurants : SameEntity(r, RestaurantRow(paths[idx], cur))

\* C12 as stated: the stored category of a record whose permitType is a list is the
\* list's elements joined with ", " in order, and the stringified, trimmed value of
\* any other permitType.
C12_CategoryFlattening ==
    pc \in {"select", "insert"} =>
        LET v == api_results.recs[ridx].permitType
        IN  StoredEntity.category =
                IF v.t = "list" THEN JoinedInOrder(v.l) ELSE Trimmed(PyStr(v))

\* C12 as amended: the joined elements of a list are trimmed as well, so the stored
\* category never starts or ends with a blank; ["A","B"] gives "A, B", "C" gives "C".
C12_CategoryFlatteningTrimmed ==
    pc \in {"select", "insert"} =>
        LET v == api_results.recs[ridx].permitType
        IN  /\ StoredEntity.category =
                   IF v.t = "list" THEN Trimmed(JoinedInOrder(v.l)) ELSE Trimmed(PyStr(v))
            /\ v = VList(<< <<"A">>, <<"B">> >>) => StoredEntity.category = <<"A", ",", " ", "B">>
            /\ v = VStr(<<"C">>) => StoredEntity.category = <<"C">>

\* the category of a list whose first element starts and whose last element ends
\* with a blank is stored without these blanks
C12_Witness ==
    /\ pc = "select"
    /\ api_results.recs[ridx].permitType = VList(<< <<" ", "A">>, <<"B", " ">> >>)
    /\ StoredEntity.category = <<"A", ",", " ", "B">>

\* the FOREIGN KEY of inspections: the restaurants row an inspections row refers to
References(row, r) ==
    r.establishment_id = row.establishment_id /\ r.path = row.establishment_path

Referenced(store) ==
    \A i \in 1..Len(store.inspections) :
        \E r \in store.restaurants : References(store.inspections[i], r)

\* C13: every inspections row, committed or in the open transaction, refers to a
\* restaurants row of the same store; the SELECT of a record is reached only from
\* its upsert, with the record's restaurants row written, the INSERT only from the
\* SELECT, and an inspections row is added only while its restaurants row is there.
C13_EntityBeforeEvent ==
    /\ [](Referenced(db) /\ Referenced(tx))
    /\ [][pc' = "select" =>
              (pc = "upsert" /\ RestaurantRow(paths[idx], cur') \in tx'.restaurants)]_vars
    /\ [][pc' = "insert" => pc = "select"]_vars
    /\ [][(pc \in InBatch /\ pc' \in InBatch /\ tx'.inspections # tx.inspections) =>
              /\ pc = "insert"
              /\ \E r \in tx.restaurants : References(InspectionRow(paths[idx], cur), r)]_vars

\* the open transaction holds a new inspections row together with the new
\* restaurants row it refers to
C13_Witness ==
    /\ conn = "open"
    /\ \E i \in 1..Len(tx.inspections) :
           /\ i > Len(db.inspections)
           /\ \A r \in db.restaurants : ~References(tx.inspections[i], r)
           /\ \E r \in tx.restaurants : References(tx.inspections[i], r)

\* C14: a source whose fetch did not end with a non-empty list gets no connection,
\* no transaction and no commit; the step that follows its fetch leaves the store,
\* the open transaction's view and all_newly_added_inspections as they are and goes
\* on with the next source (or returns after the last one).
C14_SkippedSourceUntouched ==
    /\ [](\A p \in AllPaths : ~FetchedRecords(p) => commits[p] = 0)
    /\ [](pc \in {"connect"} \cup InBatch => FetchedRecords(paths[idx]))
    /\ [][(pc = "check" /\ ~FetchedRecords(paths[idx])) =>
              /\ conn' = "closed"
              /\ tx' = tx
              /\ db' = db
              /\ all_new' = all_new
              /\ idx' = idx + 1
              /\ pc' = IF idx < Len(paths) THEN "post1" ELSE "return"]_vars

\* the run is about to fetch the next source after one that answered an object
\* instead of a list, over a store an earlier run has filled
C14_Witness ==
    /\ pc = "post1"
    /\ idx >= 2
    /\ Last(requests[paths[idx - 1]]).k = "object"
    /\ commits[paths[idx - 1]] = 0
    /\ conn = "closed"
    /\ db # EmptyStore
    /\ all_new = <<>>

\* C15: time.sleep() is called only right after the fetch of a source, once; while
\* source k is fetched k-1 delays have been made, while its batch is in the store
\* k delays, and a run that returns has made one delay per source, whatever the
\* fetches gave.
C15_Pacing ==
    /\ [](pc \in {"post1", "post2", "check"} => delays = idx - 1)
    /\ [](pc \in {"connect"} \cup InBatch => delays = idx)
    /\ [](pc \in {"return", "returned"} => delays = Len(paths))
    /\ [][delays' # delays => (delays' = 0 \/ (pc = "check" /\ delays' = delays + 1))]_vars
    /\ [][(pc = "check" /\ pc' # "check") => delays' = delays + 1]_vars

\* a run has returned after four delays: one source gave records, one an empty
\* answer twice, one failed
C15_Witness ==
    /\ pc = "returned"
    /\ delays = 4
    /\ commits[Tennessee] = 1
    /\ FetchFailed(Arizona)
    /\ Len(requests[Florida]) = 2
    /\ Last(requests[Florida]).k = "falsy"

\* C17: no step changes or removes a committed inspections row (the row with a given
\* id keeps its date, score and purpose), no step removes a committed restaurants
\* row, and the set of committed natural keys never loses a key.
C17_StoreMonotone ==
    [][/\ Len(db'.inspections) >= Len(db.inspections)
       /\ \A i \in 1..Len(db.inspections) : db'.inspections[i] = db.inspections[i]
       /\ \A r \in db.restaurants : \E q \in db'.restaurants : SameEntity(r, q)
       /\ Keys(db.inspections) \subseteq Keys(db'.inspections)]_vars

\* a later run has committed an inspection on top of the rows of an earlier one
\* and has renamed a restaurant the earlier one had stored
C17_Witness ==
    /\ pc = "returned"
    /\ base >= 1
    /\ Len(db.inspections) > base
    /\ \E r \in db.restaurants : r.name = <<"Joe's Diner">>
    /\ db.inspections[1].purpose = <<"Routine">>

\* the restaurants row a record of a source stands for
EntityOf(path, record) ==
    [establishment_id |-> PyStr(record.permitID), path |-> path,
     name |-> GetStripped(record.establishmentName, <<"N/A">>),
     address |-> GetStripped(record.addressLine1, <<>>),
     category |-> Category(record.permitType)]

HasId(record) == Truthy(record.permitID)
Accepted(record) == Truthy(record.permitID) /\ ~ScoreRejected(record.score)

\* the commit of a source's batch goes through
CommitStep == pc = "commit" /\ pc' \in {"post1", "return"}

\* C18 as stated: when the batch of a source is committed, every establishment a
\* record of the batch names with a non-empty id has a committed restaurants row
\* with the name, address and category of the last such record of the batch.
C18_EntityRefresh ==
    [][CommitStep =>
           LET recs == api_results.recs
           IN  \A i \in 1..Len(recs) :
                   (/\ HasId(recs[i])
                    /\ \A j \in (i + 1)..Len(recs) :
                           ~(HasId(recs[j]) /\ recs[j].permitID = recs[i].permitID))
                       => EntityOf(paths[idx], recs[i]) \in db'.restaurants]_vars

\* C18 as amended: the same for the records that are accepted (non-empty id, score
\* neither null nor zero); the upsert is made whether or not the record's
\* inspection is stored already, and the step that finds it stored keeps the row.
C18_EntityRefreshAccepted ==
    /\ [][CommitStep =>
              LET recs == api_results.recs
              IN  \A i \in 1..Len(recs) :
                      (/\ Accepted(recs[i])
                       /\ \A j \in (i + 1)..Len(recs) :
                              ~(Accepted(recs[j]) /\ recs[j].permitID = recs[i].permitID))
                          => EntityOf(paths[idx], recs[i]) \in db'.restaurants]_vars
    /\ [][(pc = "select" /\ pc' \in {"record", "commit"}) =>
              (tx' = tx /\ EntityOf(paths[idx], api_results.recs[ridx]) \in tx.restaurants)]_vars

\* a batch is about to be committed that adds no inspection and refreshes the
\* restaurants row an earlier run had stored
C18_Witness ==
    /\ pc = "commit"
    /\ base >= 1
    /\ tx.inspections = db.inspections
    /\ tx.restaurants # db.restaurants
    /\ Cardinality(tx.restaurants) = Cardinality(db.restaurants)

NoDuplicates(q) == \A i, j \in 1..Len(q) : q[i] = q[j] => i = j

\* the POSTs with programName "": one per visit of a source
FirstPosts(p) == SelectSeq(requests[p], LAMBDA e : e.program = "")

\* C19: whatever the directory page holds, the list _discover_paths returns has no
\* path with "test" or "staging" in it, has every path at most once, and is either
\* the fallback list or made of the hrefs of the page that begin with "/", without
\* their leading and trailing "/"; so a run visits no source twice.
C19_DiscoveryFiltering ==
    /\ [][pc = "discover_parse" =>
              /\ NoDuplicates(paths')
              /\ \A i \in 1..Len(paths') :
                     /\ ~Contains(paths'[i], "test")
                     /\ ~Contains(paths'[i], "staging")
              /\ \/ paths' = Fallback
                 \/ \A i \in 1..Len(paths') :
                        \E j \in 1..Len(response.links) :
                            /\ response.links[j].t = "str"
                            /\ response.links[j].s # <<>>
                            /\ Head(response.links[j].s) = "/"
                            /\ paths'[i] = Strip(response.links[j].s, "/")]_vars
    /\ [](pc \notin {"idle", "discover_get", "discover_parse"} => NoDuplicates(paths))
    /\ [](\A p \in AllPaths : Len(FirstPosts(p)) <= 1 /\ commits[p] <= 1)

\* a page whose links were all filtered out: the run goes to its end without a source
C19_Witness ==
    /\ pc = "return"
    /\ paths = <<>>
    /\ requests = NoRequests
    /\ delays = 0

Committed == {p \in AllPaths : commits[p] = 1}

\* C16: never more than one fetch session open, and none while a connection is
\* open or about to be opened; while a source is fetched no connection is open,
\* nothing is uncommitted and the source before it was skipped or committed; and a
\* run has opened one session per source it has fetched and one connection per
\* source whose batch it has taken to the store.
C16_SequentialResources ==
    /\ session \in {0, 1}
    /\ session = 1 => (pc = "post2" /\ conn = "closed")
    /\ pc \in {"connect"} \cup InBatch => session = 0
    /\ pc \in {"post1", "post2", "check"} =>
           /\ conn = "closed"
           /\ tx = db
           /\ idx > 1 => (paths[idx - 1] \in Committed \/ ~FetchedRecords(paths[idx - 1]))
    /\ pc = "post1" => opened.sessions = idx - 1
    /\ pc \in {"post2", "check", "connect"} \cup InBatch => opened.sessions = idx
    /\ pc \in {"return", "returned"} => opened.sessions = Len(paths)
    /\ pc \in InBatch => opened.connections = Cardinality(Committed) + 1
    /\ pc \in {"post1", "post2", "check", "connect", "return", "returned"} =>
           opened.connections = Cardinality(Committed)

\* the batch of the second source is in the store, through the second connection
\* and after the second session of the run
C16_Witness ==
    /\ pc = "commit"
    /\ conn = "open"
    /\ idx = 2
    /\ opened = [sessions |-> 2, connections |-> 2]
    /\ Len(requests[paths[2]]) = 2

\* the rows of run r that are committed
PublishedBy(r) == IF runs[r].pc = "returned" THEN runs[r].own ELSE <<>>

\* C20: of two runs at work on the same source, each sees no key twice among the
\* rows its SELECT reads and reports every row it inserts, and a commit stores
\* every inserted row whatever is committed already: for every natural key the
\* committed rows are as many as the two runs have inserted and committed, so a
\* key both runs found absent is stored twice and reported by both.
C20_ConcurrentRunsUnsafe ==
    /\ \A r \in Runs :
           /\ NoTwoRows(Visible(runs[r].view, runs[r].own))
           /\ Len(runs[r].all_new) = Len(runs[r].own)
           /\ \A i \in 1..Len(runs[r].own) :
                  /\ runs[r].all_new[i].score = runs[r].own[i].score
                  /\ runs[r].all_new[i].date = runs[r].own[i].inspection_date
    /\ \A k \in Keys(db.inspections) \cup Keys(runs[1].own) \cup Keys(runs[2].own) :
           CountKey(db.inspections, k) = CountKey(PublishedBy(1), k) + CountKey(PublishedBy(2), k)

\* both runs have returned, the store holds two inspections rows with one natural
\* key, and each run reports that inspection as newly added
C20_Witness ==
    /\ \A r \in Runs : runs[r].pc = "returned"
    /\ \E i, j \in 1..Len(db.inspections) :
           /\ i < j
           /\ NaturalKey(db.inspections[i]) = NaturalKey(db.inspections[j])
           /\ \A r \in Runs :
                  \E n \in 1..Len(runs[r].all_new) :
                      /\ runs[r].all_new[n].score = db.inspections[i].score
                      /\ runs[r].all_new[n].date = db.inspections[i].inspection_date
                      /\ NaturalKey(runs[r].own[n]) = NaturalKey(db.inspections[i])

\* the key of the inspections row a record of a source stands for
EventKey(path, record) == NaturalKey(InspectionRow(path, Normalize(record).f))

\* C21: over any sequence of runs of run_bot on one store, one after the other, no
\* event key (establishment_id, path, date, score) has been in the returned lists
\* more than once, neither in the lists of two runs nor twice in one list; every
\* entry of a list stands for one event, and the events of a returned list are
\* counted.
C21_AtMostOnceReporting ==
    /\ \A k \in DOMAIN reported : reported[k] <= 1
    /\ Len(all_new) = Len(events)
    /\ \A i \in 1..Len(events) :
           /\ all_new[i].score = events[i].score
           /\ all_new[i].date = events[i].inspection_date
    /\ pc = "returned" => \A i \in 1..Len(events) : NaturalKey(events[i]) \in DOMAIN reported

\* an earlier run has returned Joe's inspection; the provider has sent it again,
\* twice in one answer, and this run has put nothing on its list for the two records
C21_Witness ==
    /\ pc = "commit"
    /\ api_results = ListBody(<<Joe, JoeRenamed>>)
    /\ EventKey(Tennessee, Joe) = EventKey(Tennessee, JoeRenamed)
    /\ EventKey(Tennessee, Joe) \in DOMAIN reported
    /\ all_new = <<>>

\* C22: whenever no run is at work, every committed inspections row has been in the
\* list returned by the run that inserted it; so a run that an exception ends at
\* source k leaves no row of the sources before k in the store unreported.
C22_NoLostNotifications ==
    Between => \A k \in Keys(db.inspections) : k \in DOMAIN reported
====
